---------------------------- MODULE Spec2Model ----------------------------
(***************************************************************************)
(* A model of the piece table of src/src/lib.rs, and of the delete of its   *)
(* copy in src/src/main.rs.                                                 *)
(*                                                                         *)
(* A text is a sequence of bytes, each written as a one-character string.  *)
(* An ASCII character is one byte; a two-byte character is its lead byte    *)
(* followed by the continuation byte "~".  String::len, the piece offsets   *)
(* and lengths and the slices of display count bytes; chars() of char_at    *)
(* counts characters.  Spec draws ASCII texts, where the two coincide;      *)
(* SpecUtf8 starts from texts that hold a two-byte character.               *)
(* Vec and String indices are 0-based as in the source; the helper         *)
(* operators translate to the 1-based sequences of TLA+.                   *)
(* usize arithmetic is modelled on the naturals: a subtraction that would  *)
(* go below zero is reported as a panic (checked_sub(..).unwrap(), or the  *)
(* overflow check of an unchecked `-`).  A build without overflow checks    *)
(* would wrap instead; the unchecked subtractions of lib.rs 102, 132, 133  *)
(* and 136 never go below zero in a reachable state, so the two builds     *)
(* agree there.  The panics that are reached come from unwrap() (154).     *)
(***************************************************************************)
EXTENDS Integers, Sequences, FiniteSets, TLC

(* ------------------------------ bounds -------------------------------- *)

\* longest initial text given to new()
MaxInit == 3
\* longest content given to insert()
MaxContent == 2
\* largest offset given to insert() and delete()
MaxOffset == 4
\* largest length given to delete()
MaxCount == 3
\* number of insert/delete calls made on one table
MaxOps == 3

\* the texts the calls draw from
InitialSource == <<"a", "b", "c", "d", "e", "f">>
ContentSource == <<"x", "y", "z", "w", "v", "u">>
InitialTexts == { SubSeq(InitialSource, 1, n) : n \in 0..MaxInit }
Contents == { SubSeq(ContentSource, 1, n) : n \in 0..MaxContent }
Offsets == 0..MaxOffset
Counts == 0..MaxCount

(* ------------------------- std library helpers ------------------------ *)

\* Option<T>
None == [is_some |-> FALSE]
Some(v) == [is_some |-> TRUE, value |-> v]

\* usize::checked_sub
checked_sub(a, b) == IF a >= b THEN Some(a - b) ELSE None

\* Range<usize>: start..end, and Range::contains
Range(start, end) == [start |-> start, end |-> end]
\* (a variant of contains that takes the end of the range as inside it)
contains_inclusive(range, x) == range.start <= x /\ x <= range.end
contains(range, x) == range.start <= x /\ x < range.end

\* Vec::insert(index, element), Vec::remove(index), vec[index] = element
vec_insert(v, index, x) == SubSeq(v, 1, index) \o <<x>> \o SubSeq(v, index + 1, Len(v))
vec_remove(v, index) == SubSeq(v, 1, index) \o SubSeq(v, index + 2, Len(v))
\* (a variant of vec_set that leaves the element as it was)
vec_set_forgotten(v, index, x) == v
vec_set(v, index, x) == [v EXCEPT ![index + 1] = x]

\* &s[from..to]
str_slice(s, from, to) == SubSeq(s, from + 1, to)

\* String::push_str
\* (a variant that overwrites the string instead of appending to it)
push_str_overwrite(s, content) == content
push_str(s, content) == s \o content

\* a byte that continues a multi-byte character
is_continuation(b) == b = "~"

\* str::is_char_boundary: 0, len, or the index of a byte that starts a character
is_char_boundary(s, i) ==
    \/ i = 0
    \/ i = Len(s)
    \/ (i < Len(s) /\ ~is_continuation(s[i + 1]))

\* str::chars: the characters of s, each named by its lead byte
chars(s) == SelectSeq(s, LAMBDA b : ~is_continuation(b))

\* Iterator::nth
nth(cs, n) == IF n < Len(cs) THEN Some(cs[n + 1]) ELSE None

(* ------------------------------- Piece -------------------------------- *)

Piece(buffer, length, offset) == [buffer |-> buffer, length |-> length, offset |-> offset]

\* PieceTable::new: the table as a record of its three fields
new(text) == [original |-> text, add |-> <<>>, pieces |-> <<Piece("Original", Len(text), 0)>>]

\* PieceTable::length
RECURSIVE sum_lengths(_)
sum_lengths(ps) == IF ps = <<>> THEN 0 ELSE Head(ps).length + sum_lengths(Tail(ps))
length(self) == sum_lengths(self.pieces)

\* PieceTable::piece_at: Some(<<piece, index, running_total>>) or None
RECURSIVE piece_at_loop(_, _, _, _)
piece_at_loop(ps, offset, index, running_total) ==
    IF index >= Len(ps) THEN None
    ELSE LET piece == ps[index + 1]
             offset_start == running_total
             offset_end == piece.length + running_total
             range == Range(offset_start, offset_end)
         IN  IF contains(range, offset)
             THEN Some(<<piece, index, running_total>>)
             ELSE piece_at_loop(ps, offset, index + 1, running_total + piece.length)
piece_at(self, offset) == piece_at_loop(self.pieces, offset, 0, 0)

\* the buffer a piece names
buffer_of(self, piece) == IF piece.buffer = "Original" THEN self.original ELSE self.add

\* PieceTable::display.  Slicing a String outside its length, or at an index
\* that is not a character boundary, panics.
display_panics(self) ==
    \E i \in 1..Len(self.pieces) :
        LET piece == self.pieces[i]
            buffer == buffer_of(self, piece)
        IN  \/ piece.offset + piece.length > Len(buffer)
            \/ ~is_char_boundary(buffer, piece.offset)
            \/ ~is_char_boundary(buffer, piece.offset + piece.length)
RECURSIVE display_loop(_, _)
display_loop(self, ps) ==
    IF ps = <<>> THEN <<>>
    ELSE str_slice(buffer_of(self, Head(ps)), Head(ps).offset, Head(ps).offset + Head(ps).length)
         \o display_loop(self, Tail(ps))
display(self) == display_loop(self, self.pieces)

\* PieceTable::char_at
char_at(self, offset) ==
    LET found == piece_at(self, offset)
    IN  IF found.is_some
        THEN LET piece == found.value[1]
                 running_total == found.value[3]
             IN  nth(chars(buffer_of(self, piece)), (piece.offset + offset) - running_total)
        ELSE None

(* ------------------------------ insert -------------------------------- *)

\* the piece insert stores for the content it is about to append to add
\* (a variant that does not start the piece at the end of add)
new_add_piece_at_zero(self, content) == Piece("Add", Len(content), 0)
new_add_piece(self, content) == Piece("Add", Len(content), Len(self.add))

\* PieceTable::insert: the table after the call and whether the call panicked
insert(self, offset, content) ==
    LET total_length == length(self)
        add_piece == new_add_piece(self, content)
        found == piece_at(self, offset)
    IN  IF content = <<>> THEN [table |-> self, panicked |-> FALSE]
        ELSE IF offset = 0 THEN
            [table |-> [self EXCEPT !.pieces = vec_insert(@, 0, add_piece), !.add = push_str(@, content)],
             panicked |-> FALSE]
        ELSE IF offset >= total_length THEN
            [table |-> [self EXCEPT !.pieces = Append(@, add_piece), !.add = push_str(@, content)],
             panicked |-> FALSE]
        ELSE IF ~found.is_some THEN [table |-> self, panicked |-> FALSE]
        ELSE
            LET piece_to_split == found.value[1]
                index == found.value[2]
                total == found.value[3]
                remaining_length == checked_sub(offset, total)
            IN  IF ~remaining_length.is_some THEN [table |-> self, panicked |-> TRUE]
                ELSE
                LET remaining_offset == piece_to_split.offset
                    remaining == Piece(piece_to_split.buffer, remaining_length.value, remaining_offset)
                    new_length == checked_sub(piece_to_split.length, remaining_length.value)
                IN  IF ~new_length.is_some THEN [table |-> self, panicked |-> TRUE]
                    ELSE
                    LET new_offset == remaining_length.value + remaining_offset
                        new_piece == Piece(piece_to_split.buffer, new_length.value, new_offset)
                        re_add_org == remaining_length.value > 0
                        new_add == add_piece
                        with_add == vec_insert(self.pieces, index + 1, new_add)
                        added == [self EXCEPT !.pieces = with_add, !.add = push_str(@, content)]
                    IN  IF re_add_org THEN
                            [table |-> [added EXCEPT !.pieces =
                                           vec_insert(vec_set(with_add, index, remaining), index + 2, new_piece)],
                             panicked |-> FALSE]
                        ELSE IF index = 0 THEN
                            \* index -= 1 on a usize 0
                            [table |-> [added EXCEPT !.pieces = vec_remove(with_add, index)],
                             panicked |-> TRUE]
                        ELSE
                            [table |-> [added EXCEPT !.pieces =
                                           vec_insert(vec_remove(with_add, index), (index - 1) + 2, new_piece)],
                             panicked |-> FALSE]

(* ------------------------------ delete -------------------------------- *)

\* the closure given to retain_mut (lib.rs 123-147), applied to one piece whose
\* document span starts at piece_start: whether the piece is kept, the piece as
\* the closure leaves it, whether it set `split`, and whether an unchecked
\* subtraction went below zero
retain_closure(piece, piece_start, delete_range) ==
    LET piece_end == piece.length + piece_start
        diff == delete_range.end - piece_start
    IN  IF contains(delete_range, piece_start) /\ contains(delete_range, piece_end) THEN
            [keep |-> FALSE, piece |-> piece, split |-> FALSE, panicked |-> FALSE]
        ELSE IF contains(delete_range, piece_start) THEN
            IF diff < 0 \/ piece.length - diff < 0 THEN
                [keep |-> TRUE, piece |-> piece, split |-> FALSE, panicked |-> TRUE]
            ELSE IF piece.length - diff = 0 THEN
                [keep |-> FALSE, piece |-> piece, split |-> FALSE, panicked |-> FALSE]
            ELSE
                [keep |-> TRUE,
                 piece |-> [piece EXCEPT !.length = piece.length - diff, !.offset = piece.offset + diff],
                 split |-> FALSE, panicked |-> FALSE]
        ELSE IF contains(delete_range, piece_end) THEN
            [keep |-> TRUE, piece |-> [piece EXCEPT !.length = delete_range.start],
             split |-> FALSE, panicked |-> FALSE]
        ELSE IF delete_range.start > piece_start /\ delete_range.end < piece_end THEN
            [keep |-> TRUE, piece |-> piece, split |-> TRUE, panicked |-> FALSE]
        ELSE
            [keep |-> TRUE, piece |-> piece, split |-> FALSE, panicked |-> FALSE]

\* Vec::retain_mut with that closure: running_total advances by the length each
\* piece had before the closure changed it
RECURSIVE retain_mut(_, _, _)
retain_mut(ps, running_total, delete_range) ==
    IF ps = <<>> THEN [pieces |-> <<>>, split |-> FALSE, panicked |-> FALSE]
    ELSE LET r == retain_closure(Head(ps), running_total, delete_range)
             rest == retain_mut(Tail(ps), running_total + Head(ps).length, delete_range)
         IN  [pieces |-> (IF r.keep THEN <<r.piece>> ELSE <<>>) \o rest.pieces,
              split |-> r.split \/ rest.split,
              panicked |-> r.panicked \/ rest.panicked]

\* the second pass of delete (lib.rs 149-166), run when `split` was set
split_pass(self, offset, len) ==
    LET found == piece_at(self, offset)
    IN  IF ~found.is_some THEN [table |-> self, panicked |-> FALSE]
        ELSE
        LET piece_to_split == found.value[1]
            index == found.value[2]
            total == found.value[3]
        IN  IF piece_to_split.length = len THEN
                [table |-> [self EXCEPT !.pieces = vec_remove(@, index)], panicked |-> FALSE]
            ELSE IF piece_to_split.length > len THEN
                LET new_length == checked_sub(piece_to_split.length, offset + len)
                    new_offset == offset + len + piece_to_split.offset
                    remaining_length == checked_sub(offset, total)
                    remaining_offset == piece_to_split.offset
                IN  IF ~new_length.is_some \/ ~remaining_length.is_some THEN
                        [table |-> self, panicked |-> TRUE]
                    ELSE
                        LET new_piece == Piece(piece_to_split.buffer, new_length.value, new_offset)
                            remaining == Piece(piece_to_split.buffer, remaining_length.value, remaining_offset)
                        IN  [table |-> [self EXCEPT !.pieces =
                                           vec_insert(vec_set(@, index, remaining), index + 1, new_piece)],
                             panicked |-> FALSE]
            ELSE [table |-> self, panicked |-> FALSE]

\* PieceTable::delete: the table after the call and whether the call panicked
delete(self, offset, len) ==
    LET total_length == length(self)
        delete_range == Range(offset, offset + len)
        retained == retain_mut(self.pieces, 0, delete_range)
        after_retain == [self EXCEPT !.pieces = retained.pieces]
    IN  IF total_length < len /\ offset = 0 THEN
            [table |-> [self EXCEPT !.pieces = <<>>], panicked |-> FALSE]
        ELSE IF retained.panicked THEN [table |-> self, panicked |-> TRUE]
        ELSE IF retained.split THEN split_pass(after_retain, offset, len)
        ELSE [table |-> after_retain, panicked |-> FALSE]

(* ------------------------ delete of src/main.rs ----------------------- *)

\* the closure given to retain_mut in main.rs (124-153): as in lib.rs but for
\* the test that sets `split`
retain_closure_main(piece, piece_start, delete_range) ==
    LET piece_end == piece.length + piece_start
        diff == delete_range.end - piece_start
    IN  IF contains(delete_range, piece_start) /\ contains(delete_range, piece_end) THEN
            [keep |-> FALSE, piece |-> piece, split |-> FALSE, panicked |-> FALSE]
        ELSE IF contains(delete_range, piece_start) THEN
            IF diff < 0 \/ piece.length - diff < 0 THEN
                [keep |-> TRUE, piece |-> piece, split |-> FALSE, panicked |-> TRUE]
            ELSE IF piece.length - diff = 0 THEN
                [keep |-> FALSE, piece |-> piece, split |-> FALSE, panicked |-> FALSE]
            ELSE
                [keep |-> TRUE,
                 piece |-> [piece EXCEPT !.length = piece.length - diff, !.offset = piece.offset + diff],
                 split |-> FALSE, panicked |-> FALSE]
        ELSE IF contains(delete_range, piece_end) THEN
            [keep |-> TRUE, piece |-> [piece EXCEPT !.length = delete_range.start],
             split |-> FALSE, panicked |-> FALSE]
        ELSE IF /\ contains(Range(piece_start, piece_end), delete_range.start)
                /\ contains(Range(piece_start, piece_end), delete_range.end) THEN
            [keep |-> TRUE, piece |-> piece, split |-> TRUE, panicked |-> FALSE]
        ELSE
            [keep |-> TRUE, piece |-> piece, split |-> FALSE, panicked |-> FALSE]

RECURSIVE retain_mut_main(_, _, _)
retain_mut_main(ps, running_total, delete_range) ==
    IF ps = <<>> THEN [pieces |-> <<>>, split |-> FALSE, panicked |-> FALSE]
    ELSE LET r == retain_closure_main(Head(ps), running_total, delete_range)
             rest == retain_mut_main(Tail(ps), running_total + Head(ps).length, delete_range)
         IN  [pieces |-> (IF r.keep THEN <<r.piece>> ELSE <<>>) \o rest.pieces,
              split |-> r.split \/ rest.split,
              panicked |-> r.panicked \/ rest.panicked]

\* the second pass of main.rs (155-175): the same text as lib.rs 149-166, over
\* the same piece_at
split_pass_main(self, offset, len) == split_pass(self, offset, len)

\* PieceTable::delete of main.rs: after the clear it goes on (no return)
delete_main(self, offset, len) ==
    LET total_length == length(self)
        cleared == IF total_length < len /\ offset = 0
                   THEN [self EXCEPT !.pieces = <<>>]
                   ELSE self
        delete_range == Range(offset, offset + len)
        retained == retain_mut_main(cleared.pieces, 0, delete_range)
        after_retain == [cleared EXCEPT !.pieces = retained.pieces]
    IN  IF retained.panicked THEN [table |-> cleared, panicked |-> TRUE]
        ELSE IF retained.split THEN split_pass_main(after_retain, offset, len)
        ELSE [table |-> after_retain, panicked |-> FALSE]

(* --------------------------- reference string ------------------------- *)

Min(a, b) == IF a <= b THEN a ELSE b

\* the naive string splice the table is compared with: insert at
\* min(offset, len); delete [offset, min(offset + count, len)), nothing when
\* offset >= len or count = 0
RefInsert(s, offset, content) ==
    SubSeq(s, 1, Min(offset, Len(s))) \o content \o SubSeq(s, Min(offset, Len(s)) + 1, Len(s))
RefDelete(s, offset, count) ==
    IF offset >= Len(s) \/ count = 0 THEN s
    ELSE SubSeq(s, 1, offset) \o SubSeq(s, Min(offset + count, Len(s)) + 1, Len(s))

(* ----------------------------- the machine ---------------------------- *)

VARIABLES
    original,   \* PieceTable.original
    add,        \* PieceTable.add
    pieces,     \* PieceTable.pieces
    status,     \* "ok", or "panicked" once a call has aborted the process
    call,       \* the last call made: its name and arguments
    pre,        \* the table as it was when the last call was made
    reference,  \* the reference string the same calls were applied to
    ops         \* number of calls made so far

vars == <<original, add, pieces, status, call, pre, reference, ops>>

table == [original |-> original, add |-> add, pieces |-> pieces]

\* the initial texts of SpecUtf8: prefixes, cut at a character boundary, of a
\* text that starts with a two-byte character
Utf8Source == <<"e", "~", "a", "b", "c", "d", "f">>
Utf8Texts ==
    { SubSeq(Utf8Source, 1, n) :
        n \in { m \in 0..(MaxInit + 1) : is_char_boundary(Utf8Source, m) } }

Init ==
    \E text \in InitialTexts :
        /\ original = new(text).original
        /\ add = new(text).add
        /\ pieces = new(text).pieces
        /\ status = "ok"
        /\ call = [op |-> "new", offset |-> 0, content |-> text, length |-> 0]
        /\ pre = new(text)
        /\ reference = text
        /\ ops = 0

\* what a panic leaves behind: the process is gone, no further call is made
Outcome(r) == IF r.panicked THEN "panicked" ELSE "ok"

\* a call of insert(offset, content)
Insert ==
    /\ status = "ok"
    /\ ops < MaxOps
    /\ \E offset \in Offsets, content \in Contents :
        LET r == insert(table, offset, content)
        IN  /\ original' = r.table.original
            /\ add' = r.table.add
            /\ pieces' = r.table.pieces
            /\ status' = Outcome(r)
            /\ call' = [op |-> "insert", offset |-> offset, content |-> content, length |-> 0]
            /\ pre' = table
            /\ reference' = RefInsert(reference, offset, content)
            /\ ops' = ops + 1

\* a call of delete(offset, length)
Delete ==
    /\ status = "ok"
    /\ ops < MaxOps
    /\ \E offset \in Offsets, len \in Counts :
        LET r == delete(table, offset, len)
        IN  /\ original' = r.table.original
            /\ add' = r.table.add
            /\ pieces' = r.table.pieces
            /\ status' = Outcome(r)
            /\ call' = [op |-> "delete", offset |-> offset, content |-> <<>>, length |-> len]
            /\ pre' = table
            /\ reference' = RefDelete(reference, offset, len)
            /\ ops' = ops + 1

Next == Insert \/ Delete

Spec == Init /\ [][Next]_vars

\* the same machine started from a text that holds a two-byte character
InitUtf8 ==
    \E text \in Utf8Texts :
        /\ original = new(text).original
        /\ add = new(text).add
        /\ pieces = new(text).pieces
        /\ status = "ok"
        /\ call = [op |-> "new", offset |-> 0, content |-> text, length |-> 0]
        /\ pre = new(text)
        /\ reference = text
        /\ ops = 0

SpecUtf8 == InitUtf8 /\ [][Next]_vars


(* ------------------------------- claims ------------------------------- *)

\* document offset at which the i-th stored piece (1-based) of ps starts and ends
piece_start_of(ps, i) == sum_lengths(SubSeq(ps, 1, i - 1))
piece_end_of(ps, i) == piece_start_of(ps, i) + ps[i].length

\* the data-model invariants of a table: every piece within its buffer and
\* none of length 0
WellFormed(self) ==
    /\ ~display_panics(self)
    /\ \A i \in 1..Len(self.pieces) : self.pieces[i].length > 0

\* the last call was delete(offset, length), made on a table that satisfied
\* the data-model invariants, so that what the call did is the call's own doing
DeleteCalled == call.op = "delete" /\ WellFormed(pre)

\* C1: after every step of any sequence of insert and delete calls,
\* materialize() (display) equals the reference string the same calls were
\* applied to.
C1_RoundTrip ==
    status = "ok" => (~display_panics(table) /\ display(table) = reference)

\* C2: every stored piece lies within the buffer it names:
\* offset + length <= length of that buffer.
C2_BufferBounds ==
    status = "ok" =>
        \A i \in 1..Len(pieces) :
            pieces[i].offset + pieces[i].length <= Len(buffer_of(table, pieces[i]))

\* C3: starting from a non-empty initial text, no stored piece has length 0.
C3_NoZeroLengthPieces ==
    (Len(original) > 0 /\ status = "ok") =>
        \A i \in 1..Len(pieces) : pieces[i].length > 0

\* C4: no call of insert or delete aborts: no checked_sub(..).unwrap() fails,
\* no subtraction underflows and no index is out of range.
C4_NoCrash ==
    status # "panicked"

\* C5: a delete(offset, count) with offset < length() and
\* offset + count > length() leaves exactly the first `offset` characters of
\* the document it was called on.
C5_OversizedDeleteClamps ==
    (/\ DeleteCalled
     /\ call.offset < length(pre)
     /\ call.offset + call.length > length(pre))
    => (/\ status = "ok"
        /\ ~display_panics(table)
        /\ display(table) = SubSeq(display(pre), 1, call.offset))

\* C6: a delete(offset, count) with offset >= length() changes neither the
\* piece sequence, nor the add buffer, nor materialize().
C6_DeletePastEndIsNoOp ==
    (DeleteCalled /\ call.offset >= length(pre))
    => (/\ status = "ok"
        /\ pieces = pre.pieces
        /\ add = pre.add
        /\ display(table) = display(pre))

\* C7: delete(offset, 0) changes neither materialize() nor the stored piece
\* sequence, for every offset.
C7_ZeroLengthDeleteIsNoOp ==
    (DeleteCalled /\ call.length = 0)
    => (/\ status = "ok"
        /\ pieces = pre.pieces
        /\ ~display_panics(table)
        /\ display(table) = display(pre))

\* C8: a delete(offset, count), count > 0, strictly inside a piece P (at any
\* index) replaces P by a left piece (P.offset, offset - piece_start) and a
\* right piece (P.offset + (offset - piece_start) + count,
\* piece_end - (offset + count)) of P's buffer, and changes no other piece.
C8_Left(P, start) == Piece(P.buffer, call.offset - start, P.offset)
C8_Right(P, start) ==
    Piece(P.buffer, (start + P.length) - (call.offset + call.length),
          P.offset + (call.offset - start) + call.length)
C8_DeleteInsidePieceSplits ==
    \A i \in 1..Len(pre.pieces) :
        (/\ DeleteCalled
         /\ call.length > 0
         /\ piece_start_of(pre.pieces, i) < call.offset
         /\ call.offset + call.length < piece_end_of(pre.pieces, i))
        => (/\ status = "ok"
            /\ pieces = SubSeq(pre.pieces, 1, i - 1)
                        \o << C8_Left(pre.pieces[i], piece_start_of(pre.pieces, i)),
                              C8_Right(pre.pieces[i], piece_start_of(pre.pieces, i)) >>
                        \o SubSeq(pre.pieces, i + 1, Len(pre.pieces)))

\* C9: a delete(offset, count), count > 0, of exactly one whole piece P (at any
\* index) removes P and leaves every other piece, the one before P included,
\* unchanged.
C9_DeleteWholePieceRemovesIt ==
    \A i \in 1..Len(pre.pieces) :
        (/\ DeleteCalled
         /\ call.length > 0
         /\ piece_start_of(pre.pieces, i) = call.offset
         /\ pre.pieces[i].length = call.length)
        => (/\ status = "ok"
            /\ pieces = SubSeq(pre.pieces, 1, i - 1) \o SubSeq(pre.pieces, i + 1, Len(pre.pieces)))

\* C10: a delete(offset, count) that starts strictly inside piece P and ends
\* strictly inside the next piece Q shortens P to offset - piece_start(P),
\* advances Q's buffer offset and reduces Q's length by
\* (offset + count) - piece_start(Q), and changes no other piece.
C10_Shrunk(ps, i) ==
    LET d == (call.offset + call.length) - piece_start_of(ps, i + 1)
    IN  [ps EXCEPT ![i].length = call.offset - piece_start_of(ps, i),
                   ![i + 1].offset = @ + d,
                   ![i + 1].length = @ - d]
C10_DeleteAcrossTwoPieces ==
    \A i \in 1..(Len(pre.pieces) - 1) :
        (/\ DeleteCalled
         /\ piece_start_of(pre.pieces, i) < call.offset
         /\ call.offset < piece_end_of(pre.pieces, i)
         /\ piece_start_of(pre.pieces, i + 1) < call.offset + call.length
         /\ call.offset + call.length < piece_end_of(pre.pieces, i + 1))
        => (/\ status = "ok"
            /\ pieces = C10_Shrunk(pre.pieces, i)
            /\ pieces[i].length > 0
            /\ pieces[i + 1].length > 0)

\* C11: char_at(offset) is the character at index `offset` of materialize()
\* whenever offset < length(), and None whenever offset >= length().
C11_CharAtAgrees ==
    status = "ok" =>
        \A offset \in Offsets :
            IF offset < length(table)
            THEN /\ ~display_panics(table)
                 /\ char_at(table, offset) = nth(chars(display(table)), offset)
                 /\ char_at(table, offset).is_some
            ELSE char_at(table, offset) = None

\* C12: new(t) stores exactly one piece (Original, offset 0, length len(t))
\* when t is non-empty and no piece when t is empty; add is empty.
C12_Construction ==
    call.op = "new" =>
        /\ pieces = IF Len(original) > 0
                    THEN <<Piece("Original", Len(original), 0)>>
                    ELSE <<>>
        /\ add = <<>>

\* the last call was insert(offset, content) with a non-empty content
InsertCalled == call.op = "insert" /\ call.content # <<>>

\* C13: original never changes; delete does not change add; an insert of a
\* non-empty content changes add only by appending the content, and stores an
\* Add piece with offset = old len(add) and length = len(content).
C13_BuffersAppendOnly ==
    /\ original = pre.original
    /\ call.op = "delete" => add = pre.add
    /\ InsertCalled =>
        /\ add = pre.add \o call.content
        /\ SubSeq(add, 1, Len(pre.add)) = pre.add
        /\ \E k \in 1..Len(pieces) :
              pieces[k] = Piece("Add", Len(call.content), Len(pre.add))
C13_Witness ==
    /\ InsertCalled
    /\ status = "ok"
    /\ pre.add # <<>>
    /\ Len(pre.pieces) >= 2

\* C14: an insert of a non-empty content at offset >= length() leaves every
\* stored piece unchanged and in order, adds exactly one Add piece, and makes
\* materialize() the old document followed by the content.
C14_InsertAtEndAppends ==
    (InsertCalled /\ call.offset >= length(pre)) =>
        /\ status = "ok"
        /\ \E k \in 1..Len(pieces) :
              /\ pieces[k] = Piece("Add", Len(call.content), Len(pre.add))
              /\ vec_remove(pieces, k - 1) = pre.pieces
        /\ ~display_panics(pre)
        /\ ~display_panics(table)
        /\ display(table) = display(pre) \o call.content

\* C15: length() equals the length of materialize() in every reachable state.
C15_LengthInvariant ==
    status = "ok" =>
        /\ ~display_panics(table)
        /\ length(table) = Len(display(table))

\* C16: a delete(offset, count), count > 0, leaves every piece whose document
\* span does not overlap [offset, offset + count) with its buffer, offset and
\* length: the pieces that end at or before `offset` keep their place from the
\* front, those that start at or after offset + count their place from the back.
C16_DeleteLeavesOthersAlone ==
    (DeleteCalled /\ call.length > 0 /\ status = "ok") =>
        \A i \in 1..Len(pre.pieces) :
            /\ piece_end_of(pre.pieces, i) <= call.offset
                => (i <= Len(pieces) /\ pieces[i] = pre.pieces[i])
            /\ piece_start_of(pre.pieces, i) >= call.offset + call.length
                => LET j == Len(pieces) - (Len(pre.pieces) - i)
                   IN  j >= 1 /\ pieces[j] = pre.pieces[i]

\* no stored piece of the table has length 0
NoZeroLength(self) == \A i \in 1..Len(self.pieces) : self.pieces[i].length > 0

\* C17: on a table with no zero-length piece, an insert of a non-empty content
\* at 0 < offset < length(), where P is the piece covering offset and r the
\* document offset P starts at, replaces P by left (P.buffer, P.offset,
\* offset - r), new (Add, old len(add), len(content)) and right (P.buffer,
\* P.offset + (offset - r), P.length - (offset - r)), left omitted when
\* offset = r; the pieces before and after P are unchanged and keep their order.
C17_Split(ps, i, r) ==
    LET P == ps[i]
        left == Piece(P.buffer, call.offset - r, P.offset)
        added == Piece("Add", Len(call.content), Len(pre.add))
        right == Piece(P.buffer, P.length - (call.offset - r), P.offset + (call.offset - r))
    IN  SubSeq(ps, 1, i - 1)
        \o (IF call.offset = r THEN <<>> ELSE <<left>>)
        \o <<added, right>>
        \o SubSeq(ps, i + 1, Len(ps))
C17_InsertInMiddleSplits ==
    (/\ InsertCalled
     /\ NoZeroLength(pre)
     /\ 0 < call.offset
     /\ call.offset < length(pre))
    => /\ status = "ok"
       /\ \A i \in 1..Len(pre.pieces) :
            (/\ piece_start_of(pre.pieces, i) <= call.offset
             /\ call.offset < piece_end_of(pre.pieces, i))
            => pieces = C17_Split(pre.pieces, i, piece_start_of(pre.pieces, i))
C17_Witness ==
    /\ InsertCalled
    /\ NoZeroLength(pre)
    /\ status = "ok"
    /\ \E i \in 2..Len(pre.pieces) :
          /\ piece_start_of(pre.pieces, i) < call.offset
          /\ call.offset < piece_end_of(pre.pieces, i)

\* C18: on a table whose stored pieces all have length > 0, an insert of a
\* non-empty content at any offset stores only pieces of length > 0.
C18_InsertStoresNoZeroLength ==
    (InsertCalled /\ NoZeroLength(pre)) =>
        (status = "ok" /\ NoZeroLength(table))
\* an insert at the end of one piece and the start of the next, inside the document
C18_Witness ==
    /\ InsertCalled
    /\ NoZeroLength(pre)
    /\ status = "ok"
    /\ call.offset < length(pre)
    /\ \E i \in 1..(Len(pre.pieces) - 1) : piece_end_of(pre.pieces, i) = call.offset

Max(a, b) == IF a >= b THEN a ELSE b

\* C20: a delete(offset, count) makes length() smaller by exactly
\* min(count, max(0, length_before - offset)).
C20_DeleteLengthDelta ==
    DeleteCalled =>
        /\ status = "ok"
        /\ length(table) = length(pre) - Min(call.length, Max(0, length(pre) - call.offset))

\* C21: no two stored pieces reference overlapping ranges of the same buffer:
\* for distinct pieces p, q of one buffer, [p.offset, p.offset + p.length) and
\* [q.offset, q.offset + q.length) are disjoint.
C21_NoOverlappingPieces ==
    status = "ok" =>
        \A i, j \in 1..Len(pieces) :
            (i # j /\ pieces[i].buffer = pieces[j].buffer
             /\ pieces[i].length > 0 /\ pieces[j].length > 0)
            => \/ pieces[i].offset + pieces[i].length <= pieces[j].offset
               \/ pieces[j].offset + pieces[j].length <= pieces[i].offset

\* C22: the PieceTable of main.rs, given the calls the PieceTable of lib.rs
\* was given, holds the same piece sequence and add buffer after every step.
\* new and insert are the same text in both files; for a delete, the delete of
\* main.rs applied to the table the call was made on gives what lib.rs gave.
C22_CopiesEquivalent ==
    call.op = "delete" =>
        LET m == delete_main(pre, call.offset, call.length)
        IN  /\ m.panicked = (status = "panicked")
            /\ ~m.panicked => (m.table.pieces = pieces /\ m.table.add = add)

\* the two copies agree on every delete but a delete(offset, 0) whose offset is
\* the start of a non-empty piece
C22_AgreeElsewhere ==
    (\/ call.length > 0
     \/ \A i \in 1..Len(pre.pieces) :
           pre.pieces[i].length = 0 \/ piece_start_of(pre.pieces, i) # call.offset)
    => C22_CopiesEquivalent

=============================================================================
